---- MODULE Spec2Model ----
(***************************************************************************)
(* State-machine model of the SecureFile sub-client of cerberus-go-client  *)
(* (src/cerberus/securefile.go): List, Get (download) and Put (upload)     *)
(* on top of the injected transport Client.                                *)
(*                                                                         *)
(* Strings that are paths or header values are represented by the result   *)
(* of splitting them on "/" : "/tmp/dl" is <<"", "tmp", "dl">>, "" is      *)
(* <<"">>, "a.txt" is <<"a.txt">>.  Joining two strings with a "/" between *)
(* them is then the concatenation of their representations.                *)
(***************************************************************************)
EXTENDS Integers, Sequences, FiniteSets, TLC

(***************************************************************************)
(* Bounds of the model.                                                    *)
(***************************************************************************)
MaxBodyLen == 2
MaxCalls == 1

(***************************************************************************)
(* Program constants.                                                      *)
(***************************************************************************)
StatusOK == 200
StatusNoContent == 204
StatusInternalServerError == 500

secureFileBasePath == <<"", "v1", "secure-file">>
secureFileListBasePath == <<"", "v1", "secure-files">>

(***************************************************************************)
(* path.Join / filepath.Join / filepath.Clean / filepath.Base, as the Go   *)
(* standard library computes them (unix), on the split representation.     *)
(***************************************************************************)
IsRooted(p) == Len(p) >= 2 /\ p[1] = ""

RECURSIVE CleanSegs(_, _, _)
CleanSegs(segs, acc, rooted) ==
    IF segs = <<>> THEN acc
    ELSE LET s == Head(segs)
             rest == Tail(segs)
         IN  IF s = "" \/ s = "."
             THEN CleanSegs(rest, acc, rooted)
             ELSE IF s = ".."
             THEN IF acc /= <<>> /\ acc[Len(acc)] /= ".."
                  THEN CleanSegs(rest, SubSeq(acc, 1, Len(acc) - 1), rooted)
                  ELSE IF rooted
                       THEN CleanSegs(rest, acc, rooted)
                       ELSE CleanSegs(rest, Append(acc, ".."), rooted)
             ELSE CleanSegs(rest, Append(acc, s), rooted)

Clean(p) ==
    IF p = <<"">> THEN <<".">>
    ELSE LET rooted == IsRooted(p)
             acc == CleanSegs(IF rooted THEN Tail(p) ELSE p, <<>>, rooted)
         IN  IF rooted
             THEN (IF acc = <<>> THEN <<"", "">> ELSE <<"">> \o acc)
             ELSE (IF acc = <<>> THEN <<".">> ELSE acc)

\* Join of two elements: leading empty elements are skipped, the rest is
\* joined with "/" and cleaned.
Join(a, b) ==
    IF a = <<"">>
    THEN (IF b = <<"">> THEN <<"">> ELSE Clean(b))
    ELSE Clean(a \o b)

RECURSIVE StripTrailingSlashes(_)
StripTrailingSlashes(p) ==
    IF Len(p) > 1 /\ p[Len(p)] = ""
    THEN StripTrailingSlashes(SubSeq(p, 1, Len(p) - 1))
    ELSE p

Base(p) ==
    IF p = <<"">> THEN <<".">>
    ELSE LET q == StripTrailingSlashes(p)
             last == q[Len(q)]
         IN  IF last = "" THEN <<"", "">> ELSE <<last>>

(***************************************************************************)
(* The local filesystem: a fixed set of directories, a current directory,  *)
(* and the regular files, keyed by absolute cleaned path.                  *)
(***************************************************************************)
Cwd == <<"", "tmp">>
Dirs == { <<"", "">>, <<"", "tmp">>, <<"", "tmp", "dl">> }

Resolve(p) == IF IsRooted(p) THEN Clean(p) ELSE Clean(Cwd \o p)

Parent(abs) ==
    IF Len(abs) <= 2 THEN <<"", "">> ELSE SubSeq(abs, 1, Len(abs) - 1)

\* os.Create / os.Open can address the path: its directory exists and the
\* path itself is no directory.
Creatable(p) == Resolve(p) \notin Dirs /\ Parent(Resolve(p)) \in Dirs

(***************************************************************************)
(* Byte streams.                                                           *)
(***************************************************************************)
Bytes == {"h", "w"}
SeqsUpTo(S, n) == UNION { [1..k -> S] : k \in 0..n }
Bodies == SeqsUpTo(Bytes, MaxBodyLen)

(***************************************************************************)
(* Header values are sequences of lexemes: a token, ";", "=", "/", or a    *)
(* quoted string (its content in the split representation).  White space   *)
(* is not represented: the parser trims it wherever it may appear.         *)
(***************************************************************************)
Tok(w) == [k |-> "tok", v |-> <<w>>]
Quoted(s) == [k |-> "quoted", v |-> s]
Semi == [k |-> "semi", v |-> <<>>]
Eq == [k |-> "eq", v |-> <<>>]
Slash == [k |-> "slash", v |-> <<>>]

ToLower(w) ==
    CASE w = "FILENAME" -> "filename"
      [] w = "Attachment" -> "attachment"
      [] OTHER -> w

NoParams == [x \in {} |-> <<>>]

\* mime.checkMediaTypeDisposition: "" when the media type is well formed.
checkMediaTypeDisposition(base) ==
    IF base = <<>> \/ base[1].k /= "tok" THEN "mime: no media type"
    ELSE IF Len(base) = 1 THEN ""
    ELSE IF base[2].k /= "slash" THEN "mime: expected slash after first token"
    ELSE IF Len(base) < 3 \/ base[3].k /= "tok"
         THEN "mime: expected token after slash"
    ELSE IF Len(base) > 3 THEN "mime: unexpected content after media subtype"
    ELSE ""

\* mime.consumeMediaParam: key "" when no parameter could be consumed.
consumeMediaParam(v) ==
    LET fail == [key |-> "", value |-> <<>>, rest |-> v]
    IN  IF v = <<>> \/ v[1].k /= "semi" THEN fail
        ELSE IF Len(v) < 2 \/ v[2].k /= "tok" THEN fail
        ELSE IF Len(v) < 3 \/ v[3].k /= "eq" THEN fail
        ELSE IF Len(v) < 4 \/ v[4].k \notin {"tok", "quoted"} THEN fail
        ELSE [key |-> ToLower(v[2].v[1]), value |-> v[4].v,
              rest |-> SubSeq(v, 5, Len(v))]

RECURSIVE ParseParams(_, _, _)
ParseParams(mediatype, v, params) ==
    IF v = <<>> THEN [mediatype |-> mediatype, params |-> params, err |-> ""]
    ELSE LET r == consumeMediaParam(v)
         IN  IF r.key = ""
             THEN IF v = <<Semi>>
                  THEN [mediatype |-> mediatype, params |-> params, err |-> ""]
                  ELSE [mediatype |-> mediatype, params |-> NoParams,
                        err |-> "mime: invalid media parameter"]
             ELSE IF r.key \in DOMAIN params /\ params[r.key] /= r.value
                  THEN [mediatype |-> "", params |-> NoParams,
                        err |-> "mime: duplicate parameter name"]
                  ELSE ParseParams(mediatype, r.rest,
                                   (r.key :> r.value) @@ params)

RECURSIVE CutSemi(_, _)
CutSemi(v, i) ==
    IF i > Len(v) THEN Len(v)
    ELSE IF v[i].k = "semi" THEN i - 1
    ELSE CutSemi(v, i + 1)

\* mime.ParseMediaType(v): media type, parameters and error ("" for nil).
ParseMediaType(v) ==
    LET n == CutSemi(v, 1)
        base == SubSeq(v, 1, n)
        err == checkMediaTypeDisposition(base)
    IN  IF err /= ""
        THEN [mediatype |-> "", params |-> NoParams, err |-> err]
        ELSE ParseParams(ToLower(base[1].v[1]), SubSeq(v, n + 1, Len(v)),
                         NoParams)

(***************************************************************************)
(* Inputs: what the caller passes and what the transport may answer.       *)
(***************************************************************************)
Attachment(name, value) == <<Tok("attachment"), Semi, Tok(name), Eq, value>>

Headers ==
    { Attachment("filename", Quoted(<<"hello.txt">>)),
      Attachment("filename", Tok("a.txt")),
      Attachment("FILENAME", Tok("hello.txt")),
      Attachment("filename", Quoted(<<"..", "evil.txt">>)),
      Attachment("filename", Quoted(<<"", "hello.txt">>)),
      Attachment("filename", Quoted(<<"">>)),
      Attachment("name", Tok("hello.txt")),
      <<Tok("attachment")>>,
      <<Tok("attachment"), Semi>>,
      <<Tok("attachment"), Semi, Tok("filename")>>,
      Attachment("filename", Tok("a.txt")) \o <<Semi, Tok("filename"), Eq, Tok("hello.txt")>>,
      <<>> }

Statuses == {StatusOK, StatusNoContent, StatusInternalServerError}

RemotePaths == { <<"", "test", "file", "a.txt">>, <<"", "test", "file", "hello.txt">> }
RootPaths == { <<"">>, <<"sub">> }
LocalDirs == { <<"", "tmp", "dl">>, <<"dl">> }
LocalFiles == { <<"", "tmp", "secret.txt">>, <<"dl", "hello.txt">>, <<"", "tmp", "dl">> }

(***************************************************************************)
(* The listing document, as a sequence of lexemes: "{", one "s" per        *)
(* well-typed summary, one "!" per summary with a field of the wrong type, *)
(* and "}".                                                                *)
(***************************************************************************)
ListBodies ==
    { <<>>, <<"{", "}">>, <<"{", "s", "}">>, <<"{", "s", "s", "}">>,
      <<"{", "s">>, <<"{", "s", "!", "}">>, <<"{", "!", "s", "}">> }

EmptyPage == [Summaries |-> <<>>]

IsSummary(x) == x = "s"

\* parseResponse(body, sfr): decodes the document into sfr.  A document that
\* is not well formed leaves sfr untouched; a summary of the wrong type is
\* skipped, the others are stored, and the error is reported.
parseResponse(body) ==
    LET n == Len(body)
        wellFormed == /\ n >= 2
                      /\ body[1] = "{"
                      /\ body[n] = "}"
                      /\ \A i \in 2..(n - 1) : body[i] \in {"s", "!"}
        middle == SubSeq(body, 2, n - 1)
    IN  IF ~wellFormed
        THEN [err |-> "decode", sfr |-> EmptyPage]
        ELSE [err |-> IF \E i \in 1..Len(middle) : middle[i] = "!"
                      THEN "decode" ELSE "",
              sfr |-> [Summaries |-> SelectSeq(middle, IsSummary)]]

(***************************************************************************)
(* State.                                                                  *)
(***************************************************************************)
VARIABLES
    pc,         \* position of the running call, "idle" between calls
    call,       \* the running (or last) call: operation and arguments
    resp,       \* the response the transport returned to the call
    bodyState,  \* resp.Body: "none" (no response), "open" or "closed"
    bodyPos,    \* bytes of resp.Body consumed so far
    requests,   \* requests the call handed to the transport
    fs,         \* regular files: absolute path -> content
    fs0,        \* fs as it was when the call started
    localname,  \* Get: the filename parameter of Content-Disposition
    out,        \* Get: the file os.Create returned
    upload,     \* Put: the local file handle and the multipart writer
    result,     \* what the last call returned
    calls       \* calls started so far

vars == <<pc, call, resp, bodyState, bodyPos, requests, fs, fs0, localname,
          out, upload, result, calls>>

NoCall == [op |-> "none", remote |-> <<>>, local |-> <<>>]
NoResp == [status |-> 0, header |-> <<>>, body |-> <<>>]
NoOut == [created |-> FALSE, open |-> FALSE, path |-> <<>>]
NoUpload == [writer |-> "none", fileOpen |-> FALSE, started |-> FALSE,
             fieldname |-> "", filename |-> <<>>, content |-> <<>>,
             closed |-> FALSE, contentType |-> ""]
NoResult == [op |-> "none", err |-> "", isNil |-> TRUE, sfr |-> EmptyPage]

\* The files a call can touch: one that Get overwrites, one it can create
\* outside the download directory, one that Put uploads.
HelloPath == <<"", "tmp", "dl", "hello.txt">>
SecretPath == <<"", "tmp", "secret.txt">>
InitialFiles ==
    { [p \in {} |-> <<>>],
      [p \in {HelloPath} |-> <<"w">>],
      [p \in {HelloPath, SecretPath} |-> IF p = HelloPath THEN <<"w">> ELSE <<"h", "w">>] }

Init ==
    /\ pc = "idle"
    /\ call = NoCall
    /\ resp = NoResp
    /\ bodyState = "none"
    /\ bodyPos = 0
    /\ requests = <<>>
    /\ fs \in InitialFiles
    /\ fs0 = fs
    /\ localname = <<>>
    /\ out = NoOut
    /\ upload = NoUpload
    /\ result = NoResult
    /\ calls = 0

\* A call starts: the per-call state is fresh.
Start(op, remote, local) ==
    /\ pc = "idle"
    /\ calls < MaxCalls
    /\ calls' = calls + 1
    /\ call' = [op |-> op, remote |-> remote, local |-> local]
    /\ fs0' = fs
    /\ localname' = <<>>
    /\ out' = NoOut
    /\ bodyPos' = 0

Request(method, path, contentType, body) ==
    [method |-> method, path |-> path, contentType |-> contentType, body |-> body]

Returned(op, err, isNil, sfr) ==
    [op |-> op, err |-> err, isNil |-> isNil, sfr |-> sfr]

(***************************************************************************)
(* List                                                                    *)
(***************************************************************************)
\* List hands its request to r.c.DoRequest.
ListCall ==
    \E rootpath \in RootPaths :
        /\ Start("List", rootpath, <<>>)
        /\ requests' = <<Request("GET", Join(secureFileListBasePath, rootpath), "", <<>>)>>
        /\ resp' = NoResp
        /\ bodyState' = "none"
        /\ result' = NoResult
        /\ upload' = NoUpload
        /\ pc' = "list_wait"
        /\ UNCHANGED fs

\* r.c.DoRequest fails: no response, List returns (nil, error).
ListTransportError ==
    /\ pc = "list_wait"
    /\ result' = Returned("List", "transport", TRUE, EmptyPage)
    /\ pc' = "idle"
    /\ UNCHANGED <<call, resp, bodyState, bodyPos, requests, fs, fs0, localname,
                   out, upload, calls>>

\* r.c.DoRequest returns a response.
ListResponse ==
    /\ pc = "list_wait"
    /\ \E status \in Statuses, body \in ListBodies :
        resp' = [status |-> status, header |-> <<>>, body |-> body]
    /\ bodyState' = "open"
    /\ pc' = "list_status"
    /\ UNCHANGED <<call, bodyPos, requests, fs, fs0, localname, out, upload,
                   result, calls>>

\* Faulty variant of ListDecoded: the page decoded so far is returned along
\* with the error.
ListDecodedKeepingPage(err, sfr) ==
    Returned("List", err, FALSE, sfr)

\* What List returns once parseResponse has returned (err, sfr).
ListDecoded(err, sfr) ==
    IF err /= ""
    THEN Returned("List", err, TRUE, EmptyPage)
    ELSE Returned("List", "", FALSE, sfr)

\* The status check, and on 200 the decoding of the body.  List closes
\* nothing: resp.Body is left as it is.
ListFinish ==
    /\ pc = "list_status"
    /\ IF resp.status /= StatusOK
       THEN /\ result' = Returned("List", "status", TRUE, EmptyPage)
            /\ bodyPos' = bodyPos
       ELSE LET d == parseResponse(resp.body)
            IN  /\ result' = ListDecoded(d.err, d.sfr)
                /\ bodyPos' = Len(resp.body)
    /\ pc' = "idle"
    /\ UNCHANGED <<call, resp, bodyState, requests, fs, fs0, localname, out,
                   upload, calls>>

(***************************************************************************)
(* Get                                                                     *)
(***************************************************************************)
\* Faulty variant of GetReturn: resp.Body.Close() is not deferred.
GetReturnLeavingBodyOpen(err) ==
    /\ result' = Returned("Get", err, TRUE, EmptyPage)
    /\ out' = [out EXCEPT !.open = FALSE]
    /\ bodyState' = bodyState
    /\ pc' = "idle"

\* A return of Get after "defer resp.Body.Close()" (and, once the file is
\* created, "defer out.Close()") were registered: the deferred calls run.
GetReturn(err) ==
    /\ result' = Returned("Get", err, TRUE, EmptyPage)
    /\ out' = [out EXCEPT !.open = FALSE]
    /\ bodyState' = "closed"
    /\ pc' = "idle"

\* Get hands its request to r.c.DoRequest.
GetCall ==
    \E secureFilePath \in RemotePaths, localpath \in LocalDirs :
        /\ Start("Get", secureFilePath, localpath)
        /\ requests' = <<Request("GET", Join(secureFileBasePath, secureFilePath), "", <<>>)>>
        /\ resp' = NoResp
        /\ bodyState' = "none"
        /\ result' = NoResult
        /\ upload' = NoUpload
        /\ pc' = "get_wait"
        /\ UNCHANGED fs

\* r.c.DoRequest fails: Get returns before anything is deferred.
GetTransportError ==
    /\ pc = "get_wait"
    /\ result' = Returned("Get", "transport", TRUE, EmptyPage)
    /\ pc' = "idle"
    /\ UNCHANGED <<call, resp, bodyState, bodyPos, requests, fs, fs0, localname,
                   out, upload, calls>>

\* r.c.DoRequest returns a response.
GetResponse ==
    /\ pc = "get_wait"
    /\ \E status \in Statuses, header \in Headers, body \in Bodies :
        resp' = [status |-> status, header |-> header, body |-> body]
    /\ bodyState' = "open"
    /\ pc' = "get_status"
    /\ UNCHANGED <<call, bodyPos, requests, fs, fs0, localname, out, upload,
                   result, calls>>

\* Faulty variant of GetResponseError: the status is not checked.
GetResponseErrorNoStatusCheck(status, header) ==
    LET parsed == ParseMediaType(header)
    IN  IF parsed.err /= "" THEN "header"
        ELSE IF "filename" \notin DOMAIN parsed.params THEN "nofilename"
        ELSE ""

\* Faulty variant of GetResponseError: the header is examined before the
\* status.
GetResponseErrorHeaderFirst(status, header) ==
    LET parsed == ParseMediaType(header)
    IN  IF parsed.err /= "" THEN "header"
        ELSE IF "filename" \notin DOMAIN parsed.params THEN "nofilename"
        ELSE IF status /= StatusOK THEN "status"
        ELSE ""

\* The error Get returns for the response's status and Content-Disposition
\* header before it touches the filesystem, "" when it goes on to create the
\* file: the status is checked first, then the header is parsed, then the
\* filename parameter is looked up.
GetResponseError(status, header) ==
    IF status /= StatusOK THEN "status"
    ELSE LET parsed == ParseMediaType(header)
         IN  IF parsed.err /= "" THEN "header"
             ELSE IF "filename" \notin DOMAIN parsed.params THEN "nofilename"
             ELSE ""

GetCheckResponse ==
    /\ pc = "get_status"
    /\ LET err == GetResponseError(resp.status, resp.header)
       IN  IF err /= ""
           THEN /\ GetReturn(err)
                /\ localname' = localname
           ELSE /\ localname' = ParseMediaType(resp.header).params["filename"]
                /\ pc' = "get_create"
                /\ UNCHANGED <<out, bodyState, result>>
    /\ UNCHANGED <<call, resp, bodyPos, requests, fs, fs0, upload, calls>>

\* Faulty variant of GetTarget: the file is named after the remote path.
GetTargetFromRemote(localpath, localfile) == Join(localpath, Base(call.remote))

\* The path Get hands to os.Create.
GetTarget(localpath, localfile) == Join(localpath, localfile)

\* os.Create: fails when the path cannot be created (or the system refuses,
\* ioError); otherwise the file exists and is empty.
GetCreate ==
    /\ pc = "get_create"
    /\ \E ioError \in BOOLEAN :
        LET target == GetTarget(call.local, localname)
        IN  IF ioError \/ ~Creatable(target)
            THEN /\ GetReturn("create")
                 /\ fs' = fs
            ELSE /\ fs' = (Resolve(target) :> <<>>) @@ fs
                 /\ out' = [created |-> TRUE, open |-> TRUE, path |-> target]
                 /\ pc' = "get_copy"
                 /\ UNCHANGED <<bodyState, result>>
    /\ UNCHANGED <<call, resp, bodyPos, requests, fs0, localname, upload, calls>>

\* Faulty variant of GetCopyByte: a byte is consumed and not written.
GetCopyByteSkippingWrite ==
    /\ pc = "get_copy"
    /\ bodyPos < Len(resp.body)
    /\ bodyPos' = bodyPos + 1
    /\ UNCHANGED <<pc, call, resp, bodyState, requests, fs, fs0, localname, out,
                   upload, result, calls>>

\* io.Copy, one byte at a time: a byte of the body is appended to the file.
GetCopyByte ==
    /\ pc = "get_copy"
    /\ bodyPos < Len(resp.body)
    /\ bodyPos' = bodyPos + 1
    /\ fs' = [fs EXCEPT ![Resolve(out.path)] = Append(@, resp.body[bodyPos + 1])]
    /\ UNCHANGED <<pc, call, resp, bodyState, requests, fs0, localname, out,
                   upload, result, calls>>

\* io.Copy fails (a read of the body or a write to the file): Get returns
\* the error, the file stays as written so far.
GetCopyError ==
    /\ pc = "get_copy"
    /\ GetReturn("copy")
    /\ UNCHANGED <<call, resp, bodyPos, requests, fs, fs0, localname, upload, calls>>

\* io.Copy reaches the end of the body: Get returns nil.
GetCopyDone ==
    /\ pc = "get_copy"
    /\ bodyPos = Len(resp.body)
    /\ GetReturn("")
    /\ UNCHANGED <<call, resp, bodyPos, requests, fs, fs0, localname, upload, calls>>

(***************************************************************************)
(* Put                                                                     *)
(***************************************************************************)
FormDataContentType == "multipart/form-data; boundary=B"

\* The reader getUploadFileBodyWriter returns: the multipart buffer on
\* success, nil (no part, no closing boundary) on error.
UploadBody(u) ==
    IF u.writer = "ok"
    THEN [fieldname |-> u.fieldname, filename |-> u.filename,
          content |-> u.content, closed |-> u.closed]
    ELSE [fieldname |-> "", filename |-> <<>>, content |-> <<>>, closed |-> FALSE]

\* Faulty variant of PutAfterBodyWriter: the error is ignored.
PutAfterBodyWriterIgnoringError(err) ==
    /\ result' = result
    /\ pc' = "put_send"

\* Put, once getUploadFileBodyWriter has returned err ("" for nil): an
\* error is returned at once, otherwise the request is sent next.
PutAfterBodyWriter(err) ==
    IF err /= ""
    THEN /\ result' = Returned("Put", "upload_body", TRUE, EmptyPage)
         /\ pc' = "idle"
    ELSE /\ result' = result
         /\ pc' = "put_send"

\* getUploadFileBodyWriter returns err: "defer file.Close()" runs.
BodyWriterReturn(u, err) ==
    [u EXCEPT !.fileOpen = FALSE,
              !.writer = IF err = "" THEN "ok" ELSE "failed"]

\* os.Open(localfile): fails when nothing is at the path (or ioError).
PutOpen ==
    \E secureFilePath \in RemotePaths, localfile \in LocalFiles, ioError \in BOOLEAN :
        /\ Start("Put", secureFilePath, localfile)
        /\ requests' = <<>>
        /\ resp' = NoResp
        /\ bodyState' = "none"
        /\ IF ioError \/ Resolve(localfile) \notin (DOMAIN fs \cup Dirs)
           THEN /\ upload' = BodyWriterReturn(NoUpload, "open")
                /\ PutAfterBodyWriter("open")
           ELSE /\ upload' = [NoUpload EXCEPT !.writer = "running", !.fileOpen = TRUE]
                /\ result' = NoResult
                /\ pc' = "put_form"
        /\ UNCHANGED fs

\* w.CreateFormFile("file-content", filepath.Base(localfile)).
PutCreateFormFile ==
    /\ pc = "put_form"
    /\ \E ioError \in BOOLEAN :
        IF ioError
        THEN /\ upload' = BodyWriterReturn(upload, "form")
             /\ PutAfterBodyWriter("form")
        ELSE /\ upload' = [upload EXCEPT !.started = TRUE,
                                         !.fieldname = "file-content",
                                         !.filename = Base(call.local)]
             /\ pc' = "put_copy"
             /\ result' = result
    /\ UNCHANGED <<call, resp, bodyState, bodyPos, requests, fs, fs0,
                   localname, out, calls>>

\* io.Copy(part, file): the whole file, or an error after n bytes (at once
\* when the path is a directory).
PutCopyFile ==
    /\ pc = "put_copy"
    /\ LET abs == Resolve(call.local)
           data == IF abs \in DOMAIN fs THEN fs[abs] ELSE <<>>
       IN  \E n \in 0..Len(data), ioError \in BOOLEAN :
            IF ioError \/ abs \in Dirs
            THEN /\ upload' = BodyWriterReturn(
                                  [upload EXCEPT !.content = SubSeq(data, 1, n)], "copy")
                 /\ PutAfterBodyWriter("copy")
            ELSE /\ n = Len(data)
                 /\ upload' = [upload EXCEPT !.content = data]
                 /\ pc' = "put_close"
                 /\ result' = result
    /\ UNCHANGED <<call, resp, bodyState, bodyPos, requests, fs, fs0,
                   localname, out, calls>>

\* w.FormDataContentType(), then w.Close() writes the closing boundary, and
\* getUploadFileBodyWriter returns the buffer and the content type.
PutCloseWriter ==
    /\ pc = "put_close"
    /\ \E ioError \in BOOLEAN :
        IF ioError
        THEN /\ upload' = BodyWriterReturn(
                              [upload EXCEPT !.contentType = FormDataContentType], "close")
             /\ PutAfterBodyWriter("close")
        ELSE /\ upload' = BodyWriterReturn(
                              [upload EXCEPT !.contentType = FormDataContentType,
                                             !.closed = TRUE], "")
             /\ PutAfterBodyWriter("")
    /\ UNCHANGED <<call, resp, bodyState, bodyPos, requests, fs, fs0,
                   localname, out, calls>>

PutRequest ==
    Request("POST", Join(secureFileBasePath, call.remote),
            IF upload.writer = "ok" THEN upload.contentType ELSE "",
            UploadBody(upload))

\* r.c.DoRequestWithBody fails: Put returns before anything is deferred.
PutTransportError ==
    /\ pc = "put_send"
    /\ requests' = Append(requests, PutRequest)
    /\ result' = Returned("Put", "transport", TRUE, EmptyPage)
    /\ pc' = "idle"
    /\ UNCHANGED <<call, resp, bodyState, bodyPos, fs, fs0, localname, out,
                   upload, calls>>

\* r.c.DoRequestWithBody returns a response.
PutSend ==
    /\ pc = "put_send"
    /\ \E status \in Statuses :
        resp' = [status |-> status, header |-> <<>>, body |-> <<>>]
    /\ requests' = Append(requests, PutRequest)
    /\ bodyState' = "open"
    /\ pc' = "put_status"
    /\ UNCHANGED <<call, bodyPos, fs, fs0, localname, out, upload, result, calls>>

\* Faulty variant of PutStatusError: 200 is accepted as well.
PutStatusErrorAcceptingOK(status) ==
    IF status \notin {StatusNoContent, StatusOK} THEN "status" ELSE ""

\* The error Put returns for the response's status, "" for nil.
PutStatusError(status) == IF status /= StatusNoContent THEN "status" ELSE ""

\* The status check; the deferred resp.Body.Close() runs on return.
PutCheckStatus ==
    /\ pc = "put_status"
    /\ result' = Returned("Put", PutStatusError(resp.status), TRUE, EmptyPage)
    /\ bodyState' = "closed"
    /\ pc' = "idle"
    /\ UNCHANGED <<call, resp, bodyPos, requests, fs, fs0, localname, out,
                   upload, calls>>

(***************************************************************************)
(* Specification.                                                          *)
(***************************************************************************)
Next ==
    \/ ListCall
    \/ ListTransportError
    \/ ListResponse
    \/ ListFinish
    \/ GetCall
    \/ GetTransportError
    \/ GetResponse
    \/ GetCheckResponse
    \/ GetCreate
    \/ GetCopyByte
    \/ GetCopyError
    \/ GetCopyDone
    \/ PutOpen
    \/ PutCreateFormFile
    \/ PutCopyFile
    \/ PutCloseWriter
    \/ PutTransportError
    \/ PutSend
    \/ PutCheckStatus

Spec == Init /\ [][Next]_vars

(***************************************************************************)
(* Properties.                                                             *)
(***************************************************************************)
ReturnedFrom(op) == pc = "idle" /\ result.op = op
ResponseReceived == resp /= NoResp

\* abs lies inside directory dir (both absolute and clean).
Inside(abs, dir) ==
    /\ Len(abs) > Len(dir)
    /\ SubSeq(abs, 1, Len(dir)) = dir

\* The filename parameter is missing from a Content-Disposition value.
MissingFilename(header) == "filename" \notin DOMAIN ParseMediaType(header).params

\* Every file but the one at abs is as it was when the call started.
OthersUntouched(abs) ==
    /\ DOMAIN fs0 \subseteq DOMAIN fs \cup {abs}
    /\ \A p \in DOMAIN fs \ {abs} : p \in DOMAIN fs0 /\ fs[p] = fs0[p]

\* C1: Put returns nil exactly when the transport returned a response whose
\* status is 204; for every other status, and when no response came, it
\* returns an error.
C1_PutSuccessIffNoContent ==
    ReturnedFrom("Put") =>
        (result.err = "" <=> (ResponseReceived /\ resp.status = StatusNoContent))

C1_Witness ==
    /\ ReturnedFrom("Put")
    /\ resp.status = StatusNoContent
    /\ result.err = ""
    /\ requests /= <<>>

\* C2: in Put a request is handed to the transport only after
\* getUploadFileBodyWriter has returned without error, with the multipart
\* body closed by its final boundary; when getUploadFileBodyWriter fails, Put
\* returns an error and no request was issued.
C2_NoRequestBeforeBody ==
    call.op = "Put" =>
        /\ \A i \in DOMAIN requests :
              /\ upload.writer = "ok"
              /\ requests[i].body.closed
              /\ requests[i].body.fieldname = "file-content"
              /\ requests[i].contentType = FormDataContentType
        /\ upload.writer = "failed" =>
              /\ requests = <<>>
              /\ pc = "idle" => result.err = "upload_body"

C2_Witness ==
    /\ ReturnedFrom("Put")
    /\ result.err = "upload_body"
    /\ upload.started
    /\ upload.content /= <<>>
    /\ requests = <<>>

\* C3: when Get returns nil, the file it created is the one at
\* Join(localpath, filename parameter of Content-Disposition), it holds
\* exactly the bytes of the response body, and no other file was created or
\* changed: the remote path plays no part in the name.
C3_GetWritesServerNamedFile ==
    (ReturnedFrom("Get") /\ result.err = "") =>
        /\ ~MissingFilename(resp.header)
        /\ LET name == ParseMediaType(resp.header).params["filename"]
               abs == Resolve(Join(call.local, name))
           IN  /\ out.created
               /\ out.path = Join(call.local, name)
               /\ abs \in DOMAIN fs
               /\ fs[abs] = resp.body
               /\ OthersUntouched(abs)
               /\ (Len(name) = 1 /\ name[1] \notin {"", ".", ".."}) =>
                     abs = Resolve(call.local) \o name

C3_Witness ==
    /\ ReturnedFrom("Get")
    /\ result.err = ""
    /\ call.remote = <<"", "test", "file", "a.txt">>
    /\ ~MissingFilename(resp.header)
    /\ ParseMediaType(resp.header).params["filename"] = <<"hello.txt">>
    /\ resp.body = <<"h", "w">>
    /\ HelloPath \in DOMAIN fs
    /\ fs[HelloPath] = <<"h", "w">>
    /\ <<"", "tmp", "dl", "a.txt">> \notin DOMAIN fs

\* C4: when the response to Get has a status other than 200, Get returns an
\* error and the filesystem is as it was when the call started: no file is
\* created and none is truncated, whatever the headers and the body.
C4_GetNon200WritesNothing ==
    (call.op = "Get" /\ ResponseReceived /\ resp.status /= StatusOK) =>
        /\ fs = fs0
        /\ ~out.created
        /\ pc = "idle" => result.err /= ""

C4_Witness ==
    /\ ReturnedFrom("Get")
    /\ resp.status = StatusInternalServerError
    /\ ~MissingFilename(resp.header)
    /\ ParseMediaType(resp.header).params["filename"] = <<"hello.txt">>
    /\ resp.body /= <<>>
    /\ HelloPath \in DOMAIN fs0
    /\ result.err /= ""

\* C5 as stated: when the filename parameter is missing from the response's
\* Content-Disposition, Get returns the header/filename decoding error,
\* whatever the status.
C5_MissingFilenameAnyStatus ==
    (ReturnedFrom("Get") /\ ResponseReceived /\ MissingFilename(resp.header)) =>
        result.err \in {"header", "nofilename"}

\* C5 as amended: when the filename parameter is missing, Get returns the
\* header/filename decoding error if the status is 200, and the unexpected
\* status error if the status is not 200.
C5_MissingFilenameByStatus ==
    (ReturnedFrom("Get") /\ ResponseReceived /\ MissingFilename(resp.header)) =>
        IF resp.status = StatusOK
        THEN result.err \in {"header", "nofilename"}
        ELSE result.err = "status"

C5_Witness ==
    /\ ReturnedFrom("Get")
    /\ resp.status = StatusInternalServerError
    /\ resp.header = <<Tok("attachment")>>
    /\ result.err = "status"

\* C6: when Get returns after the transport returned a response, the
\* response body is closed, on every exit path.
C6_GetClosesBody ==
    (ReturnedFrom("Get") /\ ResponseReceived) => bodyState = "closed"

C6_Witness ==
    /\ ReturnedFrom("Get")
    /\ result.err = "copy"
    /\ 0 < bodyPos
    /\ bodyPos < Len(resp.body)
    /\ bodyState = "closed"
    /\ ~out.open

\* C7: List returns either a page and no error, the page being the whole
\* decoded body of a 200 response, or nil and an error; it returns nil and
\* an error on a transport failure, on every status other than 200 and on
\* a decode failure.
C7_ListPageOrError ==
    ReturnedFrom("List") =>
        /\ \/ /\ result.err = ""
              /\ ~result.isNil
              /\ ResponseReceived
              /\ resp.status = StatusOK
              /\ parseResponse(resp.body).err = ""
              /\ result.sfr = parseResponse(resp.body).sfr
           \/ /\ result.err /= ""
              /\ result.isNil
              /\ result.sfr = EmptyPage
        /\ ~ResponseReceived => result.err = "transport"
        /\ (ResponseReceived /\ resp.status /= StatusOK) => result.err = "status"
        /\ (ResponseReceived /\ resp.status = StatusOK
              /\ parseResponse(resp.body).err /= "") => result.err = "decode"

C7_Witness ==
    /\ ReturnedFrom("List")
    /\ resp.status = StatusOK
    /\ resp.body = <<"{", "s", "!", "}">>
    /\ result.err = "decode"
    /\ result.isNil

\* C8 as stated: when Get returns an error, no file exists at the path it
\* created.
C8_GetErrorLeavesNoFile ==
    (ReturnedFrom("Get") /\ result.err /= "" /\ out.created) =>
        Resolve(out.path) \notin DOMAIN fs

\* C8 as amended: when Get returns an error other than a failure of the body
\* copy, the filesystem is as it was when the call started; when the body
\* copy fails, the file Get created is left in place and holds the bytes
\* copied so far, a prefix of the response body, and no other file changed.
C8_GetErrorLeavesPrefix ==
    (ReturnedFrom("Get") /\ result.err /= "") =>
        IF result.err = "copy"
        THEN /\ out.created
             /\ Resolve(out.path) \in DOMAIN fs
             /\ fs[Resolve(out.path)] = SubSeq(resp.body, 1, bodyPos)
             /\ OthersUntouched(Resolve(out.path))
        ELSE /\ fs = fs0
             /\ ~out.created

C8_Witness ==
    /\ ReturnedFrom("Get")
    /\ result.err = "copy"
    /\ Len(resp.body) = 2
    /\ bodyPos = 1
    /\ out.created
    /\ Resolve(out.path) = HelloPath
    /\ HelloPath \in DOMAIN fs0
    /\ fs[HelloPath] = SubSeq(resp.body, 1, 1)

\* C9: when List returns after the transport returned a response, the
\* response body is closed.
C9_ListClosesBody ==
    (ReturnedFrom("List") /\ ResponseReceived) => bodyState = "closed"

\* C10: every file Get creates lies inside the caller's localpath, whatever
\* filename the server supplies.
C10_GetCreatesInsideLocalDir ==
    (call.op = "Get" /\ out.created) =>
        Inside(Resolve(out.path), Resolve(call.local))

====
